---- MODULE Spec2Model ----
(***************************************************************************)
(* NotionImporter.import (src/formats/notion.ts): the two-pass import of   *)
(* exported archives into a vault.  Vault paths are sequences of segments  *)
(* (a folder path "a/b/" is <<"a","b">>), archive paths are strings.       *)
(***************************************************************************)
EXTENDS Naturals, Sequences, FiniteSets, TLC

VARIABLES
    files,                  \* this.files: the selected archives, each a sequence of entries
    folder,                 \* result of getOutputFolder(): NoFolder or a folder path
    parentsInSubfolders,    \* this.parentsInSubfolders
    pc,                     \* position of import(): start, pass1, folders, pass2, done, halted, rejected
    zi,                     \* processZips: index of the archive being visited
    ei,                     \* processZips: index of the next entry of the open archive
    open,                   \* processZips: TRUE while inside the readZip callback of archive zi
    idsToFileInfo,          \* id -> document info, in key insertion order
    pathsToAttachmentInfo,  \* archive path -> attachment info, in key insertion order
    attachmentFolderPath,   \* vault.getConfig('attachmentFolderPath') ?? ''
    total,                  \* const total (line 65)
    flatFolderPaths,        \* the Set of line 76, in insertion order
    fi,                     \* index of the next folder of flatFolderPaths to create
    current,                \* let current (line 95)
    faults,                 \* number of calls that have thrown so far
    log                     \* every call made to a collaborator, in order

vars == <<files, folder, parentsInSubfolders, pc, zi, ei, open, idsToFileInfo,
          pathsToAttachmentInfo, attachmentFolderPath, total, flatFolderPaths, fi, current, faults, log>>

----------------------------------------------------------------------------
(* Bounds of the model *)

MaxZips == 2
MaxEntries == 2
MaxFaults == 1

----------------------------------------------------------------------------
(* Archive entries *)

NoId == <<>>
NoFolder == <<"?">>
HexDigits == {"a", "b", "c", "d", "1", "2", "3", "4"}
IdLen == 2

Entry(filepath, name, suffix, extension, title, parent, props) ==
    [filepath |-> filepath, name |-> name, suffix |-> suffix, extension |-> extension,
     title |-> title, parent |-> parent, props |-> props, body |-> "body of " \o filepath]

RootDoc == Entry("Root a1.html", "Root a1.html", <<"a", "1">>, "html", "Root", NoId, <<>>)
ChildDoc == Entry("Root a1/Child b2.html", "Child b2.html", <<"b", "2">>, "html", "Child",
                  <<"a", "1">>, <<[title |-> "Tags", content |-> "x"]>>)
OldRootDoc == Entry("Old/Root a1.html", "Root a1.html", <<"a", "1">>, "html", "Root",
                    <<"b", "2">>, <<>>)
TwinDoc == Entry("Root a1/Child b2/Root c3.html", "Root c3.html", <<"c", "3">>, "html", "Root",
                 <<"b", "2">>, <<>>)
IndexHtml == Entry("index a.html", "index a.html", <<"a">>, "html", "index", NoId, <<>>)
DatabaseCsv == Entry("Root a1/Tasks d4.csv", "Tasks d4.csv", <<"d", "4">>, "csv", "", <<"a", "1">>, <<>>)
PlainCsv == Entry("Root a1/data.csv", "data.csv", <<>>, "csv", "", <<"a", "1">>, <<>>)
Picture == Entry("Root a1/pic b2.png", "pic b2.png", <<"b", "2">>, "png", "", <<"a", "1">>, <<>>)

Entries == <<RootDoc, ChildDoc, OldRootDoc, TwinDoc, IndexHtml, DatabaseCsv, PlainCsv, Picture>>

\* the archives of 1 to n entries: an archive holds each of its paths once, here in
\* the order of Entries
ZipsUpTo(n) ==
    {[i \in 1..Len(at) |-> Entries[at[i]]] :
        at \in {SelectSeq([i \in 1..Len(Entries) |-> i], LAMBDA i : i \in picked) :
                   picked \in {p \in SUBSET (1..Len(Entries)) :
                                  Cardinality(p) >= 1 /\ Cardinality(p) <= n}}}

\* the selections of at most n archives holding at most budget entries together
RECURSIVE FileLists(_, _)
FileLists(n, budget) ==
    IF n = 0 THEN {<<>>}
    ELSE {<<>>} \cup UNION {{<<z>> \o rest : rest \in FileLists(n - 1, budget - Len(z))} :
                              z \in ZipsUpTo(budget)}

----------------------------------------------------------------------------
(* Mappings: a JavaScript object as the sequence of its [key, val] pairs *)

Keys(map) == {map[i].key : i \in 1..Len(map)}
Has(map, k) == k \in Keys(map)
Get(map, k) == (CHOOSE i \in 1..Len(map) : map[i].key = k)
Lookup(map, k) == map[Get(map, k)].val
Put(map, k, v) ==
    IF Has(map, k) THEN [map EXCEPT ![Get(map, k)] = [key |-> k, val |-> v]]
    ELSE Append(map, [key |-> k, val |-> v])

----------------------------------------------------------------------------
(* The log of collaborator calls *)

Ev(op, file, path, cur, tot, data, props, ok) ==
    [op |-> op, file |-> file, path |-> path, cur |-> cur, tot |-> tot, data |-> data,
     props |-> props, ok |-> ok]

\* ok = FALSE: the call threw
Notice(msg) == Ev("Notice", "", <<>>, 0, 0, msg, <<>>, TRUE)
readZip(n, ok) == Ev("readZip", "", <<>>, n, 0, "", <<>>, ok)
parseFileInfoCall(file, ok) == Ev("parseFileInfo", file.filepath, <<>>, 0, 0, "", <<>>, ok)
reportSkipped(filepath) == Ev("reportSkipped", filepath, <<>>, 0, 0, "", <<>>, TRUE)
createFolders(path, ok) == Ev("createFolders", "", path, 0, 0, "", <<>>, ok)
reportProgress(cur, tot) == Ev("reportProgress", "", <<>>, cur, tot, "", <<>>, TRUE)
readToMarkdownCall(file, ok) == Ev("readToMarkdown", file.filepath, <<>>, 0, 0, "", <<>>, ok)
vaultCreate(path, data, ok) == Ev("create", "", path, 0, 0, data, <<>>, ok)
processFrontMatter(path, props, ok) == Ev("processFrontMatter", "", path, 0, 0, "", props, ok)
reportNoteSuccess(filepath) == Ev("reportNoteSuccess", filepath, <<>>, 0, 0, "", <<>>, TRUE)
fileRead(file, ok) == Ev("read", file.filepath, <<>>, 0, 0, "", <<>>, ok)
writeBinary(path, data, ok) == Ev("writeBinary", "", path, 0, 0, data, <<>>, ok)
reportAttachmentSuccess(filepath) == Ev("reportAttachmentSuccess", filepath, <<>>, 0, 0, "", <<>>, TRUE)
reportFailed(filepath, e) == Ev("reportFailed", filepath, <<>>, 0, 0, e, <<>>, TRUE)

----------------------------------------------------------------------------
(* Helpers of the importer *)

\* normalizePath: empty segments (doubled or leading separators) disappear
normalizePath(path) == SelectSeq(path, LAMBDA s : s # "")

\* the id embedded in a name: a suffix of exactly IdLen hex digits before the extension
getNotionId(suffix) ==
    IF Len(suffix) = IdLen /\ \A i \in 1..Len(suffix) : suffix[i] \in HexDigits
    THEN suffix ELSE NoId

\* the id test negated
isDatabaseCSVWithoutId(file) == file.extension = "csv" /\ getNotionId(file.suffix) = NoId

isDatabaseCSV(file) == file.extension = "csv" /\ getNotionId(file.suffix) # NoId

RECURSIVE IdString(_)
IdString(id) == IF id = <<>> THEN "" ELSE Head(id) \o IdString(Tail(id))

\* the walk cut off after three segments, whatever it has visited
RECURSIVE WalkParentsToDepth(_, _, _, _)
WalkParentsToDepth(parent, infos, visited, acc) ==
    IF parent = NoId \/ ~Has(infos, parent) \/ Len(acc) >= 3 THEN acc
    ELSE WalkParentsToDepth(Lookup(infos, parent).parent, infos, visited,
                            <<Lookup(infos, parent).title>> \o acc)

\* walk the parent ids, prepending each found parent's segment; stop at an absent,
\* dangling or already visited parent
RECURSIVE WalkParents(_, _, _, _)
WalkParents(parent, infos, visited, acc) ==
    IF parent = NoId \/ ~Has(infos, parent) \/ parent \in visited THEN acc
    ELSE WalkParents(Lookup(infos, parent).parent, infos, visited \cup {parent},
                     <<Lookup(infos, parent).title>> \o acc)

\* the chain closed by the document's own title
assembleParentIdsWithSelf(fileInfo, infos) ==
    WalkParents(fileInfo.parent, infos, {fileInfo.id}, <<>>) \o <<fileInfo.title>>

assembleParentIds(fileInfo, infos) ==
    WalkParents(fileInfo.parent, infos, {fileInfo.id}, <<>>)

\* parseFileInfo throws for a document whose name carries no id
parseFileInfoThrows(file) == file.extension = "html" /\ getNotionId(file.suffix) = NoId

\* parseFileInfo, mapping of documents: idsToFileInfo[id] = info
parseFileInfoIds(file, infos) ==
    IF file.extension = "html"
    THEN Put(infos, getNotionId(file.suffix),
             [id |-> getNotionId(file.suffix), title |-> file.title, parent |-> file.parent,
              path |-> file.filepath])
    ELSE infos

\* parseFileInfo, mapping of attachments: pathsToAttachmentInfo[filepath] = info
parseFileInfoAttachments(file, infos) ==
    IF file.extension = "html" THEN infos
    ELSE Put(infos, file.filepath,
             [path |-> file.filepath, nameWithExtension |-> file.name, parent |-> file.parent,
              targetParentFolder |-> <<>>])

\* the path of a document without its extension
NotePath(fileInfo, infos, targetFolderPath) ==
    targetFolderPath \o assembleParentIds(fileInfo, infos) \o <<fileInfo.title>>

\* cleanDuplicates, documents: a document whose path is already taken gets its id
\* appended to its title
RECURSIVE cleanDuplicateNotes(_, _, _, _)
cleanDuplicateNotes(infos, i, seen, targetFolderPath) ==
    IF i > Len(infos) THEN infos
    ELSE LET info == infos[i].val
             renamed == [info EXCEPT !.title = info.title \o " " \o IdString(info.id)]
             infos2 == IF NotePath(info, infos, targetFolderPath) \in seen
                       THEN [infos EXCEPT ![i].val = renamed] ELSE infos
         IN cleanDuplicateNotes(infos2, i + 1,
                seen \cup {NotePath(infos2[i].val, infos2, targetFolderPath)},
                targetFolderPath)

\* cleanDuplicates, attachments: the folder of an attachment is its owning document's
\* folder (parents in subfolders) or the target root, plus the attachment folder
attachmentFolder(info, notes, targetFolderPath, attFolder, inSubfolders) ==
    (IF inSubfolders /\ Has(notes, info.parent)
     THEN NotePath(Lookup(notes, info.parent), notes, targetFolderPath)
     ELSE targetFolderPath) \o attFolder

cleanDuplicateAttachments(infos, notes, targetFolderPath, attFolder, inSubfolders) ==
    [i \in 1..Len(infos) |->
        [infos[i] EXCEPT !.val.targetParentFolder =
            attachmentFolder(infos[i].val, notes, targetFolderPath, attFolder, inSubfolders)]]

----------------------------------------------------------------------------
(* import(), lines 27-47 *)

targetFolderPath == normalizePath(folder)

Init ==
    /\ files \in FileLists(MaxZips, MaxEntries)
    /\ folder \in {NoFolder, <<"Notion">>}
    /\ parentsInSubfolders \in BOOLEAN
    /\ attachmentFolderPath \in {<<>>, <<"media">>}
    /\ pc = "start"
    /\ zi = 1
    /\ ei = 1
    /\ open = FALSE
    /\ idsToFileInfo = <<>>
    /\ pathsToAttachmentInfo = <<>>
    /\ total = 0
    /\ flatFolderPaths = <<>>
    /\ fi = 1
    /\ current = 0
    /\ faults = 0
    /\ log = <<>>

\* the pre-flight checks without the check of the destination
PreflightFilesOnly(fs, dest) ==
    IF Len(fs) = 0 THEN "Please pick at least one file to import." ELSE "pass1"

\* the pre-flight checks: pass1, or the reason of the halt
Preflight(fs, dest) ==
    IF Len(fs) = 0 THEN "Please pick at least one file to import."
    ELSE IF dest = NoFolder THEN "Please select a location to export to."
    ELSE "pass1"

Start ==
    /\ pc = "start"
    /\ IF Preflight(files, folder) = "pass1"
       THEN pc' = "pass1" /\ log' = log
       ELSE pc' = "halted" /\ log' = Append(log, Notice(Preflight(files, folder)))
    /\ UNCHANGED <<files, folder, parentsInSubfolders, zi, ei, open, idsToFileInfo,
                   pathsToAttachmentInfo, attachmentFolderPath, total, flatFolderPaths,
                   fi, current, faults>>

----------------------------------------------------------------------------
(* processZips, lines 166-177 *)

InZips == pc \in {"pass1", "pass2"}

\* the archive is left after any entry
AfterEntryLeavesZip(z, i) == [zi |-> z + 1, ei |-> 1, open |-> FALSE]

\* the position after the entry at index i of archive z
AfterEntry(z, i) ==
    IF i + 1 > Len(files[z]) THEN [zi |-> z + 1, ei |-> 1, open |-> FALSE]
    ELSE [zi |-> z, ei |-> i + 1, open |-> TRUE]

Advance ==
    /\ zi' = AfterEntry(zi, ei).zi
    /\ ei' = AfterEntry(zi, ei).ei
    /\ open' = AfterEntry(zi, ei).open

\* zipFile.readZip and readZipFiles; a failure leaves import() rejected
OpenZip ==
    /\ InZips /\ ~open /\ zi <= Len(files)
    /\ \E ok \in BOOLEAN :
        /\ ~ok => faults < MaxFaults
        /\ log' = Append(log, readZip(zi, ok))
        /\ IF ok
           THEN /\ zi' = AfterEntry(zi, 0).zi
                /\ ei' = AfterEntry(zi, 0).ei
                /\ open' = AfterEntry(zi, 0).open
                /\ UNCHANGED <<pc, faults>>
           ELSE /\ pc' = "rejected"
                /\ faults' = faults + 1
                /\ UNCHANGED <<zi, ei, open>>
    /\ UNCHANGED <<files, folder, parentsInSubfolders, idsToFileInfo, pathsToAttachmentInfo,
                   attachmentFolderPath, total, flatFolderPaths, fi, current>>

\* line 172: a database export is passed over
SkipDatabaseCSV ==
    /\ InZips /\ open
    /\ isDatabaseCSV(files[zi][ei])
    /\ Advance
    /\ UNCHANGED <<files, folder, parentsInSubfolders, pc, idsToFileInfo,
                   pathsToAttachmentInfo, attachmentFolderPath, total, flatFolderPaths,
                   fi, current, faults, log>>

----------------------------------------------------------------------------
(* Pass 1, lines 50-61 *)

\* a catch that reports nothing
SkippedUnreported(file) == <<>>

\* the catch of lines 58-60
Skipped(file) == <<reportSkipped(file.filepath)>>

ParseEntry ==
    /\ pc = "pass1" /\ open
    /\ ~isDatabaseCSV(files[zi][ei])
    /\ LET file == files[zi][ei] IN
       \E fault \in BOOLEAN :
        /\ fault => faults < MaxFaults /\ ~parseFileInfoThrows(file)
        /\ IF fault \/ parseFileInfoThrows(file)
           THEN /\ log' = log \o <<parseFileInfoCall(file, FALSE)>> \o Skipped(file)
                /\ UNCHANGED <<idsToFileInfo, pathsToAttachmentInfo>>
           ELSE /\ log' = Append(log, parseFileInfoCall(file, TRUE))
                /\ idsToFileInfo' = parseFileInfoIds(file, idsToFileInfo)
                /\ pathsToAttachmentInfo' = parseFileInfoAttachments(file, pathsToAttachmentInfo)
        /\ faults' = IF fault THEN faults + 1 ELSE faults
    /\ Advance
    /\ UNCHANGED <<files, folder, parentsInSubfolders, pc, attachmentFolderPath, total,
                   flatFolderPaths, fi, current>>

----------------------------------------------------------------------------
(* Between the passes, lines 63-91 *)

\* Set.add of every element of a sequence, keeping insertion order
RECURSIVE AddAll(_, _)
AddAll(set, paths) ==
    IF paths = <<>> THEN set
    ELSE AddAll(IF \E i \in 1..Len(set) : set[i] = Head(paths) THEN set
                ELSE Append(set, Head(paths)), Tail(paths))

\* the folders of the documents alone
allFolderPathsOfNotes(notes, attachments, target) ==
    [i \in 1..Len(notes) |-> target \o assembleParentIds(notes[i].val, notes)]

\* lines 77-85
allFolderPaths(notes, attachments, target) ==
    [i \in 1..Len(notes) |-> target \o assembleParentIds(notes[i].val, notes)]
    \o [i \in 1..Len(attachments) |-> attachments[i].val.targetParentFolder]

\* lines 76-88
FlatFolderPaths(notes, attachments, target) ==
    AddAll(<<target>>, allFolderPaths(notes, attachments, target))

\* lines 63-65
Total(notes, attachments) == Len(notes) + Len(attachments)

\* Pass 1 taken as finished after any archive
PassOneDoneEarly == pc = "pass1" /\ ~open /\ zi > 1

PassOneDone == pc = "pass1" /\ ~open /\ zi > Len(files)

Plan ==
    /\ PassOneDone
    /\ total' = Total(idsToFileInfo, pathsToAttachmentInfo)
    /\ idsToFileInfo' = cleanDuplicateNotes(idsToFileInfo, 1, {}, targetFolderPath)
    /\ pathsToAttachmentInfo' =
          cleanDuplicateAttachments(pathsToAttachmentInfo, idsToFileInfo', targetFolderPath,
                                    attachmentFolderPath, parentsInSubfolders)
    /\ flatFolderPaths' =
          FlatFolderPaths(idsToFileInfo', pathsToAttachmentInfo', targetFolderPath)
    /\ fi' = 1
    /\ pc' = "folders"
    /\ UNCHANGED <<files, folder, parentsInSubfolders, zi, ei, open, attachmentFolderPath,
                   current, faults, log>>

\* Pass 2 starts after the first folder
AfterFolderFirstOnly(i, n) == "pass2"

\* where import() stands after folder i of n has been created
AfterFolder(i, n) == IF i < n THEN "folders" ELSE "pass2"

\* lines 89-97: one createFolders call; after the last one Pass 2 starts
CreateFolder ==
    /\ pc = "folders" /\ fi <= Len(flatFolderPaths)
    /\ \E ok \in BOOLEAN :
        /\ ~ok => faults < MaxFaults
        /\ log' = Append(log, createFolders(flatFolderPaths[fi], ok))
        /\ IF ok
           THEN /\ pc' = AfterFolder(fi, Len(flatFolderPaths))
                /\ fi' = fi + 1
                /\ faults' = faults
           ELSE /\ pc' = "rejected"
                /\ faults' = faults + 1
                /\ fi' = fi
    /\ zi' = 1 /\ ei' = 1 /\ open' = FALSE /\ current' = 0
    /\ UNCHANGED <<files, folder, parentsInSubfolders, idsToFileInfo, pathsToAttachmentInfo,
                   attachmentFolderPath, total, flatFolderPaths>>

----------------------------------------------------------------------------
(* Pass 2, lines 97-160 *)

\* readToMarkdown: the converted body
markdownBody(file) == "markdown of " \o file.body

\* the document path without its ancestor folders
notePathFlat(fileInfo, notes, target) == target \o <<fileInfo.title \o ".md">>

\* lines 121-124
notePath(fileInfo, notes, target) ==
    target \o assembleParentIds(fileInfo, notes) \o <<fileInfo.title \o ".md">>

\* lines 149-151
attachmentPath(attachmentInfo) ==
    normalizePath(attachmentInfo.targetParentFolder \o <<attachmentInfo.nameWithExtension>>)

\* a catch that reports nothing
CaughtSilently(file, e) == <<>>

\* the catch of lines 157-159
Caught(file, e) == <<reportFailed(file.filepath, e)>>

\* the front matter is edited whatever the conversion returned
AfterCreateAlwaysEdits(file, path, thrown) ==
    <<processFrontMatter(path, file.props, TRUE), reportNoteSuccess(file.filepath)>>

\* lines 126-137; thrown = 3: processFrontMatter throws
AfterCreate(file, path, thrown) ==
    IF Len(file.props) > 0
    THEN IF thrown = 3
         THEN <<processFrontMatter(path, file.props, FALSE)>> \o Caught(file, "processFrontMatter failed")
         ELSE <<processFrontMatter(path, file.props, TRUE), reportNoteSuccess(file.filepath)>>
    ELSE <<reportNoteSuccess(file.filepath)>>

\* lines 102-138; thrown = 1: readToMarkdown throws, 2: vault.create throws
NoteSteps(file, notes, target, thrown) ==
    IF getNotionId(file.suffix) = NoId
    THEN Caught(file, "ids not found for " \o file.filepath)
    ELSE IF ~Has(notes, getNotionId(file.suffix))
    THEN Caught(file, "file info not found for " \o file.filepath)
    ELSE IF thrown = 1
    THEN <<readToMarkdownCall(file, FALSE)>> \o Caught(file, "readToMarkdown failed")
    ELSE LET path == notePath(Lookup(notes, getNotionId(file.suffix)), notes, target) IN
         IF thrown = 2
         THEN <<readToMarkdownCall(file, TRUE), vaultCreate(path, markdownBody(file), FALSE)>>
              \o Caught(file, "create failed")
         ELSE <<readToMarkdownCall(file, TRUE), vaultCreate(path, markdownBody(file), TRUE)>>
              \o AfterCreate(file, path, thrown)

\* the body is read before the attachment is looked up
AttachmentStepsReadFirst(file, attachments, thrown) ==
    IF ~Has(attachments, file.filepath)
    THEN <<fileRead(file, TRUE)>>
         \o Caught(file, "attachment info not found for " \o file.filepath)
    ELSE <<fileRead(file, TRUE),
           writeBinary(attachmentPath(Lookup(attachments, file.filepath)), file.body, TRUE),
           reportAttachmentSuccess(file.filepath)>>

\* lines 139-155; thrown = 1: file.read throws, 2: writeBinary throws
AttachmentSteps(file, attachments, thrown) ==
    IF ~Has(attachments, file.filepath)
    THEN Caught(file, "attachment info not found for " \o file.filepath)
    ELSE IF thrown = 1
    THEN <<fileRead(file, FALSE)>> \o Caught(file, "read failed")
    ELSE LET path == attachmentPath(Lookup(attachments, file.filepath)) IN
         IF thrown = 2
         THEN <<fileRead(file, TRUE), writeBinary(path, file.body, FALSE)>>
              \o Caught(file, "writeBinary failed")
         ELSE <<fileRead(file, TRUE), writeBinary(path, file.body, TRUE),
                reportAttachmentSuccess(file.filepath)>>

\* .csv entries taken for documents too
IsNoteOrCsv(file) == file.extension \in {"html", "csv"}

\* line 102
IsNote(file) == file.extension = "html"

\* lines 101-159
EntrySteps(file, notes, attachments, target, thrown) ==
    IF IsNote(file) THEN NoteSteps(file, notes, target, thrown)
    ELSE AttachmentSteps(file, attachments, thrown)

\* the number of calls of the entry's processing that can throw
Fallible(file, notes, attachments) ==
    IF IsNote(file)
    THEN IF getNotionId(file.suffix) = NoId \/ ~Has(notes, getNotionId(file.suffix)) THEN 0
         ELSE IF Len(file.props) > 0 THEN 3 ELSE 2
    ELSE IF Has(attachments, file.filepath) THEN 2 ELSE 0

\* the report made before the increment
ProgressBeforeIncrement(cur, tot) == <<reportProgress(cur, tot)>>

\* lines 98-99
Progress(cur, tot) == <<reportProgress(cur + 1, tot)>>

ImportEntry ==
    /\ pc = "pass2" /\ open
    /\ ~isDatabaseCSV(files[zi][ei])
    /\ LET file == files[zi][ei] IN
       \E thrown \in 0..3 :
        /\ thrown <= Fallible(file, idsToFileInfo, pathsToAttachmentInfo)
        /\ thrown # 0 => faults < MaxFaults
        /\ current' = current + 1
        /\ log' = log \o Progress(current, total)
                      \o EntrySteps(file, idsToFileInfo, pathsToAttachmentInfo,
                                    targetFolderPath, thrown)
        /\ faults' = IF thrown # 0 THEN faults + 1 ELSE faults
    /\ Advance
    /\ UNCHANGED <<files, folder, parentsInSubfolders, pc, idsToFileInfo,
                   pathsToAttachmentInfo, attachmentFolderPath, total, flatFolderPaths, fi>>

\* import() returns
Finish ==
    /\ pc = "pass2" /\ ~open /\ zi > Len(files)
    /\ pc' = "done"
    /\ UNCHANGED <<files, folder, parentsInSubfolders, zi, ei, open, idsToFileInfo,
                   pathsToAttachmentInfo, attachmentFolderPath, total, flatFolderPaths,
                   fi, current, faults, log>>

Next ==
    \/ Start
    \/ OpenZip
    \/ SkipDatabaseCSV
    \/ ParseEntry
    \/ Plan
    \/ CreateFolder
    \/ ImportEntry
    \/ Finish

Spec == Init /\ [][Next]_vars

----------------------------------------------------------------------------
(* Reading the log *)

RECURSIVE Flatten(_)
Flatten(zs) == IF zs = <<>> THEN <<>> ELSE Head(zs) \o Flatten(Tail(zs))

\* a database export: a .csv whose name carries an id
IsDatabaseExport(e) == e.extension = "csv" /\ getNotionId(e.suffix) # NoId

\* the entries of all selected archives that are not database exports, in order
Visited == SelectSeq(Flatten(files), LAMBDA e : ~IsDatabaseExport(e))

Indices(op) == SelectSeq([i \in 1..Len(log) |-> i], LAMBDA i : log[i].op = op)

\* the calls of Pass 2
ContentOps == {"readToMarkdown", "create", "processFrontMatter", "read", "writeBinary"}
OutcomeOps == {"reportFailed", "reportNoteSuccess", "reportAttachmentSuccess"}
PassTwoOps == ContentOps \cup OutcomeOps \cup {"reportProgress"}

\* the calls made for the k-th entry of Pass 2, after its reportProgress
Segment(k) ==
    LET at == Indices("reportProgress") IN
    SelectSeq(SubSeq(log, at[k] + 1, IF k < Len(at) THEN at[k + 1] - 1 ELSE Len(log)),
              LAMBDA ev : ev.op # "readZip")

Count(seq, ops) == Len(SelectSeq(seq, LAMBDA ev : ev.op \in ops))

Created == {log[i].path : i \in {j \in 1..Len(log) : log[j].op = "createFolders" /\ log[j].ok}}

----------------------------------------------------------------------------
(* Claims *)

\* C1: every planned folder has been created before the first call of Pass 2
\* (reportProgress, conversion, vault.create, writeBinary, outcome reports), and no
\* folder is created after a call of Pass 2.
C1_FoldersBeforePassTwo ==
    LET calls == {j \in 1..Len(log) : log[j].op \in PassTwoOps} IN
    calls # {} =>
        LET first == CHOOSE j \in calls : \A i \in calls : j <= i IN
        /\ \A k \in 1..Len(flatFolderPaths) :
               \E i \in 1..(first - 1) : log[i] = createFolders(flatFolderPaths[k], TRUE)
        /\ \A i \in first..Len(log) : log[i].op # "createFolders"

\* a finished run that created several folders and wrote a document
C1_Witness ==
    /\ pc = "done"
    /\ Cardinality(Created) >= 2
    /\ \E i \in 1..Len(log) : log[i].op = "create" /\ log[i].ok

\* C2: no conversion and no content write happens before Pass 1 has called
\* parseFileInfo for every entry that is not a database export, in order, and
\* duplicate resolution has run; a step of Pass 2 leaves the keys of both mappings
\* as they are.
C2_MetadataBarrier ==
    [][/\ (\E j \in 1..Len(log') : log'[j].op \in ContentOps) =>
            /\ pc' \in {"pass2", "done", "rejected"}
            /\ LET first == CHOOSE j \in 1..Len(log') :
                                /\ log'[j].op \in ContentOps
                                /\ \A i \in 1..(j - 1) : log'[i].op \notin ContentOps
                   parsed == SelectSeq(SubSeq(log', 1, first),
                                       LAMBDA ev : ev.op = "parseFileInfo")
               IN /\ Len(parsed) = Len(Visited)
                  /\ \A k \in 1..Len(parsed) : parsed[k].file = Visited[k].filepath
       /\ pc = "pass2" =>
            /\ Keys(idsToFileInfo') = Keys(idsToFileInfo)
            /\ Keys(pathsToAttachmentInfo') = Keys(pathsToAttachmentInfo)]_vars

\* a run with entries in a second archive has converted a document
C2_Witness ==
    /\ Len(files) = 2 /\ Len(files[2]) > 0
    /\ \E j \in 1..Len(log) : log[j].op = "readToMarkdown"

\* the lookup of lines 103-110 and 140-145 fails for the entry
LookupFails(e) ==
    IF e.extension = "html"
    THEN getNotionId(e.suffix) = NoId \/ getNotionId(e.suffix) \notin Keys(idsToFileInfo)
    ELSE e.filepath \notin Keys(pathsToAttachmentInfo)

\* the calls of Pass 2 for an entry of which no step throws
Expected(e) ==
    IF e.extension = "html"
    THEN LET info == Lookup(idsToFileInfo, getNotionId(e.suffix))
             path == targetFolderPath \o assembleParentIds(info, idsToFileInfo)
                        \o <<info.title \o ".md">>
         IN <<readToMarkdownCall(e, TRUE), vaultCreate(path, markdownBody(e), TRUE)>>
            \o (IF e.props # <<>> THEN <<processFrontMatter(path, e.props, TRUE)>> ELSE <<>>)
            \o <<reportNoteSuccess(e.filepath)>>
    ELSE LET info == Lookup(pathsToAttachmentInfo, e.filepath)
         IN <<fileRead(e, TRUE),
              writeBinary(info.targetParentFolder \o <<info.nameWithExtension>>, e.body, TRUE),
              reportAttachmentSuccess(e.filepath)>>

\* C3: in Pass 2 an entry of which a step (lookup, conversion, write, front-matter
\* edit) throws gets exactly one reportFailed for its path and no success report;
\* every other entry is processed as if nothing had failed, and a finished run has
\* processed every entry that is not a database export.
C3_FailuresIsolated ==
    LET at == Indices("reportProgress") IN
    /\ Len(at) <= Len(Visited)
    /\ pc = "done" => Len(at) = Len(Visited)
    /\ \A k \in 1..Len(at) :
        LET e == Visited[k]
            seg == Segment(k)
            threw == LookupFails(e) \/ \E i \in 1..Len(seg) : ~seg[i].ok
        IN /\ threw => /\ Count(seg, {"reportFailed"}) = 1
                       /\ seg[Len(seg)].op = "reportFailed"
                       /\ seg[Len(seg)].file = e.filepath
                       /\ Count(seg, {"reportNoteSuccess", "reportAttachmentSuccess"}) = 0
           /\ ~threw => seg = Expected(e)

\* a finished run in which one entry failed at a throwing call and a later entry
\* was written
C3_Witness ==
    /\ pc = "done"
    /\ \E i, j \in 1..Len(log) :
        /\ i < j
        /\ log[i].op \in ContentOps /\ ~log[i].ok
        /\ log[j].op \in {"create", "writeBinary"} /\ log[j].ok

\* the entries of Pass 1 whose parseFileInfo call returned
ParsedOk ==
    LET at == Indices("parseFileInfo")
        ks == SelectSeq([k \in 1..Len(at) |-> k], LAMBDA k : log[at[k]].ok)
    IN [n \in 1..Len(ks) |-> Visited[ks[n]]]

RECURSIVE ScanIds(_)
ScanIds(es) ==
    IF es = <<>> THEN <<>>
    ELSE parseFileInfoIds(es[Len(es)], ScanIds(SubSeq(es, 1, Len(es) - 1)))

RECURSIVE ScanAttachments(_)
ScanAttachments(es) ==
    IF es = <<>> THEN <<>>
    ELSE parseFileInfoAttachments(es[Len(es)], ScanAttachments(SubSeq(es, 1, Len(es) - 1)))

\* C4: in Pass 1 an entry whose parseFileInfo throws is reported skipped, the scan
\* goes on through every later entry and archive, and the mappings are those
\* built from the other entries alone.
C4_SkippedAndContinues ==
    LET at == Indices("parseFileInfo") IN
    /\ Len(at) <= Len(Visited)
    /\ \A k \in 1..Len(at) :
        /\ log[at[k]].file = Visited[k].filepath
        /\ ~log[at[k]].ok <=>
              (at[k] < Len(log) /\ log[at[k] + 1] = reportSkipped(Visited[k].filepath))
    /\ Count(log, {"reportSkipped"}) = Len(at) - Len(ParsedOk)
    /\ pc \in {"folders", "pass2", "done"} => Len(at) = Len(Visited)
    /\ pc = "pass1" =>
        /\ idsToFileInfo = ScanIds(ParsedOk)
        /\ pathsToAttachmentInfo = ScanAttachments(ParsedOk)

\* Pass 1 is over, an entry was skipped and a later entry is in a mapping
C4_Witness ==
    /\ pc = "pass1" /\ ~open /\ zi > Len(files)
    /\ \E i, j \in 1..Len(log) :
        /\ i < j
        /\ log[i].op = "reportSkipped"
        /\ log[j].op = "parseFileInfo" /\ log[j].ok
    /\ Len(idsToFileInfo) + Len(pathsToAttachmentInfo) > 0

Parent(path) == SubSeq(path, 1, Len(path) - 1)

\* the parent folders of the planned paths of all documents and attachments
PlannedParents ==
    {Parent(targetFolderPath
            \o assembleParentIds(idsToFileInfo[i].val, idsToFileInfo)
            \o <<idsToFileInfo[i].val.title \o ".md">>) : i \in 1..Len(idsToFileInfo)}
    \cup {Parent(normalizePath(pathsToAttachmentInfo[i].val.targetParentFolder
                               \o <<pathsToAttachmentInfo[i].val.nameWithExtension>>)) :
              i \in 1..Len(pathsToAttachmentInfo)}

\* C5 as stated: the folders created are exactly the parent folders of the planned
\* document and attachment paths.
C5_Original ==
    pc \in {"pass2", "done"} => Created = PlannedParents

\* C5, amended: the folders created are exactly the target root folder and the
\* parent folders of the planned document and attachment paths.
C5_FoldersCreated ==
    pc \in {"pass2", "done"} => Created = {targetFolderPath} \cup PlannedParents

\* a finished run with something planned, where the target root is nobody's parent
\* folder
C5_Witness ==
    /\ pc = "done"
    /\ PlannedParents # {}
    /\ targetFolderPath \notin PlannedParents

\* C6: when no file or no destination folder is chosen, import() halts at once: no
\* archive is read, no mapping filled, no folder created, nothing written and
\* nothing reported.
C6_PreflightHalts ==
    (Len(files) = 0 \/ folder = NoFolder) =>
        /\ pc \in {"start", "halted"}
        /\ \A i \in 1..Len(log) : log[i].op = "Notice"
        /\ idsToFileInfo = <<>> /\ pathsToAttachmentInfo = <<>>
        /\ flatFolderPaths = <<>> /\ current = 0 /\ total = 0

\* import() has halted for want of a destination, with entries selected
C6_Witness ==
    /\ pc = "halted"
    /\ folder = NoFolder
    /\ Len(Flatten(files)) > 0

\* C7: once the pre-flight checks have passed, import() never fails to its caller.
C7_NeverRejects == pc # "rejected"

\* C8: a database export (a .csv carrying an id) is passed over in both passes: no
\* call names it, no mapping holds it, nothing of it is written, and it counts
\* neither in total nor in the progress counter.
C8_DatabaseExportIgnored ==
    /\ \A z \in 1..Len(files) : \A n \in 1..Len(files[z]) :
        LET e == files[z][n] IN
        (e.extension = "csv" /\ getNotionId(e.suffix) # NoId) =>
            /\ \A i \in 1..Len(log) : log[i].file # e.filepath /\ log[i].data # e.body
            /\ \A i \in 1..Len(idsToFileInfo) : idsToFileInfo[i].val.path # e.filepath
            /\ \A i \in 1..Len(pathsToAttachmentInfo) :
                   pathsToAttachmentInfo[i].key # e.filepath
    /\ total <= Len(Visited)
    /\ current <= Len(Visited)
    /\ pc = "done" => current = Len(Visited)

\* a finished run over a database export and another entry
C8_Witness ==
    /\ pc = "done"
    /\ current >= 1
    /\ \E z \in 1..Len(files) : \E n \in 1..Len(files[z]) : IsDatabaseExport(files[z][n])

\* the calls that copy an attachment
Copied(e) ==
    LET info == Lookup(pathsToAttachmentInfo, e.filepath) IN
    <<fileRead(e, TRUE),
      writeBinary(info.targetParentFolder \o <<info.nameWithExtension>>, e.body, TRUE),
      reportAttachmentSuccess(e.filepath)>>

\* what C9 says of the entry of segment k when its name carries no id
PlainAttachment(e, seg) ==
    /\ \A i \in 1..Len(seg) :
          ~(seg[i].op = "reportFailed" /\ seg[i].data = "ids not found for " \o e.filepath)
    /\ (e.filepath \in Keys(pathsToAttachmentInfo) /\ \A i \in 1..Len(seg) : seg[i].ok)
          => seg = Copied(e)

\* C9 as stated: an entry without an extractable id is handled as a plain
\* attachment in Pass 2, whatever its extension.
C9_Original ==
    \A k \in 1..Len(Indices("reportProgress")) :
        getNotionId(Visited[k].suffix) = NoId => PlainAttachment(Visited[k], Segment(k))

\* C9, amended: an entry without an extractable id whose extension is not html is
\* handled as a plain attachment in Pass 2 (looked up by its archive path; copied to
\* its planned path when the info is there and no call throws; never failed for
\* lacking an id); an .html entry without id is reported failed for lacking an id.
C9_PlainAttachment ==
    \A k \in 1..Len(Indices("reportProgress")) :
        LET e == Visited[k] IN
        getNotionId(e.suffix) = NoId =>
            IF e.extension = "html"
            THEN Segment(k) = <<reportFailed(e.filepath, "ids not found for " \o e.filepath)>>
            ELSE /\ PlainAttachment(e, Segment(k))
                 /\ e.filepath \notin Keys(pathsToAttachmentInfo) =>
                      Segment(k) = <<reportFailed(e.filepath,
                                       "attachment info not found for " \o e.filepath)>>

\* a .csv without id has been copied
C9_Witness ==
    \E k \in 1..Len(Indices("reportProgress")) :
        /\ Visited[k].extension = "csv"
        /\ getNotionId(Visited[k].suffix) = NoId
        /\ Visited[k].filepath \in Keys(pathsToAttachmentInfo)
        /\ Segment(k) = Copied(Visited[k])

\* C10: the k-th reportProgress call of a run is reportProgress(k, total), with the
\* same total in every call, and it precedes every lookup, conversion, write and
\* outcome report of the k-th entry.
C10_ProgressFirst ==
    LET at == Indices("reportProgress") IN
    /\ \A k \in 1..Len(at) :
        LET seg == Segment(k) IN
        /\ log[at[k]].cur = k
        /\ log[at[k]].tot = total
        /\ log[at[k]].tot = log[at[1]].tot
        /\ Count(seg, OutcomeOps) = 1
        /\ \A i \in 1..Len(seg) : seg[i].file \in {"", Visited[k].filepath}
    /\ \A i \in 1..Len(log) :
          log[i].op \in ContentOps \cup OutcomeOps => (Len(at) >= 1 /\ at[1] < i)

\* a finished run that reported progress at least twice
C10_Witness ==
    /\ pc = "done"
    /\ Len(Indices("reportProgress")) >= 2

\* the archives and entries of a log in the order they were taken up
Marks(seq, ops) ==
    LET taken == SelectSeq(seq, LAMBDA ev : ev.op \in ops \cup {"readZip"}) IN
    [i \in 1..Len(taken) |->
        IF taken[i].op = "readZip" THEN [zip |-> taken[i].cur, file |-> ""]
        ELSE [zip |-> 0, file |-> taken[i].file]]

\* selection order of the archives, iterator order of their entries
RECURSIVE Order(_)
Order(z) ==
    IF z > Len(files) THEN <<>>
    ELSE <<[zip |-> z, file |-> ""]>>
         \o [i \in 1..Len(SelectSeq(files[z], LAMBDA e : ~IsDatabaseExport(e))) |->
               [zip |-> 0,
                file |-> SelectSeq(files[z], LAMBDA e : ~IsDatabaseExport(e))[i].filepath]]
         \o Order(z + 1)

IsPrefix(s, t) == Len(s) <= Len(t) /\ s = SubSeq(t, 1, Len(s))

\* C11: in each pass the archives are taken in selection order and their entries in
\* iterator order, the same in both passes, one entry at a time: every call made for
\* an entry, its outcome report last, lies before the next entry or archive is
\* taken up.
C11_OneAtATime ==
    LET cf == Indices("createFolders")
        one == IF cf = <<>> THEN log ELSE SubSeq(log, 1, cf[1] - 1)
        two == IF cf = <<>> THEN <<>> ELSE SubSeq(log, cf[Len(cf)] + 1, Len(log))
    IN /\ IsPrefix(Marks(one, {"parseFileInfo"}), Order(1))
       /\ IsPrefix(Marks(two, OutcomeOps), Order(1))
       /\ pc \in {"folders", "pass2", "done"} => Marks(one, {"parseFileInfo"}) = Order(1)
       /\ pc = "done" => Marks(two, OutcomeOps) = Order(1)
       /\ \A k \in 1..Len(Indices("reportProgress")) :
            LET seg == Segment(k) IN
            /\ seg # <<>>
            /\ seg[Len(seg)].op \in OutcomeOps
            /\ \A i \in 1..Len(seg) : seg[i].file \in {"", Visited[k].filepath}

\* a finished run over two archives and at least two entries
C11_Witness ==
    /\ pc = "done"
    /\ Len(files) = 2
    /\ Len(Visited) >= 2

\* the calls of the log that wrote a file
Writes == SelectSeq(log, LAMBDA ev : ev.op \in {"create", "writeBinary"})

\* C12: no write of Pass 2 goes to a path that an earlier write of the same run has
\* already written, whether the two are documents, attachments or one of each.
C12_UniquePaths ==
    \A i, j \in 1..Len(Writes) :
        (i < j /\ Writes[i].ok) => Writes[i].path # Writes[j].path

\* C13: every document is written to the target folder followed by the folders of
\* its ancestor chain and its title with '.md', the chain being the one the folder
\* set was computed from, so the folder of every written document was created; in
\* siblings mode a root document Root with child Child gives Root.md and
\* Root/Child.md.
C13_DocumentPath ==
    \A k \in 1..Len(Indices("reportProgress")) :
        LET e == Visited[k]
            seg == Segment(k)
        IN \A i \in 1..Len(seg) :
            seg[i].op = "create" =>
                LET fileInfo == Lookup(idsToFileInfo, getNotionId(e.suffix)) IN
                /\ seg[i].path = targetFolderPath
                                    \o assembleParentIds(fileInfo, idsToFileInfo)
                                    \o <<fileInfo.title \o ".md">>
                /\ Parent(seg[i].path) \in Created
                /\ (/\ ~parentsInSubfolders
                    /\ fileInfo.title = "Child"
                    /\ Has(idsToFileInfo, fileInfo.parent)
                    /\ Lookup(idsToFileInfo, fileInfo.parent).parent = NoId)
                   => seg[i].path = targetFolderPath
                        \o <<Lookup(idsToFileInfo, fileInfo.parent).title, "Child.md">>

\* in siblings mode Root.md and Root/Child.md were both written below the target
C13_Witness ==
    /\ pc = "done"
    /\ ~parentsInSubfolders
    /\ \E i, j \in 1..Len(log) :
        /\ log[i].op = "create" /\ log[i].ok
        /\ log[i].path = targetFolderPath \o <<"Root.md">>
        /\ log[j].op = "create" /\ log[j].ok
        /\ log[j].path = targetFolderPath \o <<"Root", "Child.md">>

\* C14: for a document the calls of Pass 2 come in the order conversion, text
\* write, front-matter edit, success report; the edit is made exactly when the
\* text write succeeded and the conversion returned properties, on the written
\* file, and assigns every returned property; success is reported only after all
\* of them succeeded.
C14_DocumentSteps ==
    \A k \in 1..Len(Indices("reportProgress")) :
        LET e == Visited[k]
            seg == Segment(k)
            at(op) == {i \in 1..Len(seg) : seg[i].op = op}
            okAt(op) == {i \in at(op) : seg[i].ok}
        IN IsNote(e) =>
            /\ \A op \in {"readToMarkdown", "create", "processFrontMatter",
                           "reportNoteSuccess"} : Cardinality(at(op)) <= 1
            /\ \A i \in at("create") : i - 1 \in okAt("readToMarkdown")
            /\ (at("processFrontMatter") # {})
                 <=> (okAt("create") # {} /\ Len(e.props) > 0)
            /\ \A i \in at("processFrontMatter") :
                 /\ i - 1 \in okAt("create")
                 /\ seg[i].path = seg[i - 1].path
                 /\ \A p \in 1..Len(e.props) : \E q \in 1..Len(seg[i].props) :
                      /\ seg[i].props[q].title = e.props[p].title
                      /\ seg[i].props[q].content = e.props[p].content
            /\ \A i \in at("reportNoteSuccess") :
                 /\ i = Len(seg)
                 /\ okAt("create") # {}
                 /\ IF Len(e.props) > 0 THEN i - 1 \in okAt("processFrontMatter")
                                         ELSE i - 1 \in okAt("create")

\* a document with properties and one without were both imported and reported
C14_Witness ==
    \E k, m \in 1..Len(Indices("reportProgress")) :
        /\ Len(Visited[k].props) > 0
        /\ Len(Visited[m].props) = 0
        /\ \E i \in 1..Len(Segment(k)) :
             Segment(k)[i].op = "processFrontMatter" /\ Segment(k)[i].ok
        /\ Segment(k)[Len(Segment(k))].op = "reportNoteSuccess"
        /\ Segment(m)[Len(Segment(m))].op = "reportNoteSuccess"

\* the documents of the mapping that lie on a cycle of two parent pointers
OnCycle ==
    {i \in 1..Len(idsToFileInfo) :
        \E j \in 1..Len(idsToFileInfo) :
            /\ i # j
            /\ idsToFileInfo[i].val.parent = idsToFileInfo[j].key
            /\ idsToFileInfo[j].val.parent = idsToFileInfo[i].key}

\* C15: also when the parent ids form a cycle, assembleParentIds returns for every
\* document a chain in which no segment occurs twice and that is no longer than
\* the number of documents, so the folder set and the document paths are computed
\* and the run goes on.
C15_CycleTerminates ==
    \A i \in 1..Len(idsToFileInfo) :
        LET chain == assembleParentIds(idsToFileInfo[i].val, idsToFileInfo) IN
        /\ Len(chain) <= Len(idsToFileInfo)
        /\ \A m, n \in 1..Len(chain) : m # n => chain[m] # chain[n]
        /\ i \in OnCycle => Len(chain) = 1

\* two documents that name each other as parent were both written
C15_Witness ==
    /\ pc = "done"
    /\ OnCycle # {}
    /\ Cardinality({j \in 1..Len(log) : log[j].op = "create" /\ log[j].ok}) >= 2

\* following the parent pointers from id ends within n steps at a root or at an id
\* that is not in the mapping
RECURSIVE EndsWithin(_, _)
EndsWithin(id, n) ==
    \/ id = NoId
    \/ ~Has(idsToFileInfo, id)
    \/ n > 0 /\ EndsWithin(Lookup(idsToFileInfo, id).parent, n - 1)

C17_LookupFailure ==
    \A k \in 1..Len(Indices("reportProgress")) :
        LET e == Visited[k]
            seg == Segment(k)
        IN LookupFails(e) =>
            /\ Count(seg, ContentOps) = 0
            /\ Count(seg, OutcomeOps) = 1
            /\ seg = <<reportFailed(e.filepath,
                        (IF ~IsNote(e) THEN "attachment info not found for "
                         ELSE IF getNotionId(e.suffix) = NoId THEN "ids not found for "
                         ELSE "file info not found for ") \o e.filepath)>>

\* a document without id and an attachment missing from its mapping were both
\* reported failed
C17_Witness ==
    /\ pc = "done"
    /\ \E k, m \in 1..Len(Indices("reportProgress")) :
        /\ IsNote(Visited[k]) /\ LookupFails(Visited[k])
        /\ ~IsNote(Visited[m]) /\ LookupFails(Visited[m])
        /\ Count(Segment(k), {"reportFailed"}) = 1
        /\ Count(Segment(m), {"reportFailed"}) = 1

\* C18: an entry that Pass 2 reports failed has left no file behind: no write made
\* for it succeeded before the failure, the front-matter edit after the text write
\* included.
C18_EntryAtomic ==
    \A k \in 1..Len(Indices("reportProgress")) :
        LET seg == Segment(k) IN
        Count(seg, {"reportFailed"}) > 0 =>
            \A i \in 1..Len(seg) :
                seg[i].op \in {"create", "writeBinary"} => ~seg[i].ok

\* C19: every reportProgress(current, total) has 1 <= current <= total, total being
\* the number of keys of the two mappings after Pass 1.
C19_ProgressWithinTotal ==
    \A i \in 1..Len(log) :
        log[i].op = "reportProgress" =>
            /\ 1 <= log[i].cur
            /\ log[i].cur <= log[i].tot
            /\ log[i].tot = total

\* the entries Pass 1 reported skipped, by their position among the visited entries
SkippedInPassOne ==
    LET calls == Indices("parseFileInfo") IN
    {k \in 1..Len(calls) : ~log[calls[k]].ok}

\* C20: over the two passes every visited entry gets one outcome report: an entry
\* reported skipped in Pass 1 gets no report in Pass 2, every other entry gets one
\* report in Pass 2, and none gets both a success and a failure.
C20_OneOutcome ==
    pc = "done" =>
        \A k \in 1..Len(Indices("reportProgress")) :
            LET seg == Segment(k) IN
            /\ Count(seg, OutcomeOps) = (IF k \in SkippedInPassOne THEN 0 ELSE 1)
            /\ ~(/\ Count(seg, {"reportFailed"}) > 0
                 /\ Count(seg, {"reportNoteSuccess", "reportAttachmentSuccess"}) > 0)

====
